---- MODULE Spec2Model ----
(***************************************************************************)
(* Model of the FROST coordinator (src/coordinator/coordinator.py) driving *)
(* NumNodes signer nodes (src/signer/signer.py) through distributed key    *)
(* generation (status, rounds 1-3) and threshold signing (rounds 1-2).     *)
(*                                                                         *)
(* The cryptographic engine (rust_tss) is not part of the sources; its     *)
(* operations are modelled from the interface description as opaque steps  *)
(* that either fail or return tokens determined by their inputs.           *)
(***************************************************************************)
EXTENDS Integers, Sequences, FiniteSets, TLC

\* ------------------------------------------------------------------ bounds
\* largest group: number of signer URLs in SIGNERS (TOTAL of the signers)
NumNodes == 3
\* number of coordinator runs (run_dkg / coordinate_frost_sign) in a behaviour
MaxRuns == 3
\* number of requests a client other than the coordinator sends
MaxCalls == 4
\* number of injected faults in a behaviour: engine errors, requests that
\* raise at the coordinator, responses lost on the way back, a finalisation
\* that arrives at divergent artifacts
MaxFaults == 1

\* the artifacts the key generation of a run can arrive at: every run draws
\* fresh secrets, so the sound artifacts of one run are those of no other
\* run; a faulty finalisation arrives at divergent ones
Sound(run) == <<"sound", run>>
Artifacts(run) == {Sound(run), <<"divergent", run>>}
Messages == {"msg"}

\* ------------------------------------------------------------ state
VARIABLES
    N,                  \* group size: len(SIGNERS), TOTAL in the signers' environment
    PID_HEX,            \* signer global PID_HEX per node (Unset until status/round1 ran)
    keys,               \* engine store per node: persisted Group Public Artifacts, or NoKeys
    stage,              \* engine DKG progress per node: "none", "r1", "r2"
    nonce,              \* engine: pending signing commitment per node (NoNonce if none)
    nonceCtr,           \* engine: number of commitments a node has generated
    policy,             \* message policy hook deployed on the signer nodes
    pc,                 \* coordinator position
    req,                \* request in flight to each node
    resp,               \* asyncio.gather slot per node for the current round
    round1_data,        \* run_dkg: round-1 response bodies, in SIGNERS order
    round1_commitments, \* coordinate_frost_sign: commitments of this session
    message,            \* coordinate_frost_sign: message argument
    result,             \* outcome of the current/last run
    dkg_result,         \* what the last successful run_dkg returned
    runs,               \* number of runs started
    sent,               \* history: requests sent in the current run
    served,             \* history: what became of the requests of the current run
    faults,             \* number of faults injected so far
    other,              \* a second coordinate_frost_sign running at the same time
    probe               \* the last request a client sent to a node directly

vars == <<N, PID_HEX, keys, stage, nonce, nonceCtr, policy, pc, req, resp,
          round1_data, round1_commitments, message, result,
          dkg_result, runs, sent, served, faults, other, probe>>

nodeVars == <<PID_HEX, keys, stage, nonce, nonceCtr>>

\* positions in SIGNERS
Nodes == 1..N
coordVars == <<pc, round1_data, round1_commitments, message, result,
               dkg_result, runs, sent>>

\* ------------------------------------------------------------ values
Unset == <<"unset", 0>>
NoKeys == [is_exists |-> FALSE, verify_key_hex |-> <<"", 0>>, pubkp |-> <<"", 0>>]
NoNonce == <<Unset, 0>>
NoReq == [kind |-> "none"]
NoResp == [kind |-> "none"]
\* the awaited request raised (connect error, timeout, connection reset)
TransportError == [kind |-> "exc"]
NoArtifacts == <<<<"", 0>>, <<"", 0>>>>
NoResult == [op |-> "none", status |-> "none", value |-> NoArtifacts, error |-> "none"]

\* Group Public Artifacts number a, as the engine persists them
KeysOf(a) == [is_exists |-> TRUE, verify_key_hex |-> <<"vk", a>>, pubkp |-> <<"pubkp", a>>]

\* PARTY_ID of the node behind SIGNERS[i]
PID(i) == i

\* an HTTP response that arrived: status code and JSON body
Http(code, json) == [kind |-> "http", status_code |-> code, json |-> json]

\* resp.json() of a gather slot
Json(r) == IF r.kind = "http" THEN r.json ELSE [detail |-> "no response"]

\* data[key] raises KeyError unless the key is in the body
Has(json, key) == key \in DOMAIN json

\* the local state of node i, as the handlers read it
NodeState(i) ==
    [PID_HEX |-> PID_HEX[i], keys |-> keys[i], stage |-> stage[i],
     nonce |-> nonce[i], nonceCtr |-> nonceCtr[i]]

\* ------------------------------------------------------------ engine
\* The engine's operations.  Each returns one outcome [ok, ret, st]; the
\* argument fail selects the outcome in which the engine raises an error
\* (ok = FALSE), which leaves the engine state st as it was.
EngineError(st) == [ok |-> FALSE, st |-> st]

\* the participant identifier the engine derives from PARTY_ID
IdHex(pid) == <<"id", pid>>

rust_init(st, pid, fail) ==
    IF fail
    THEN EngineError(st)
    ELSE [ok |-> TRUE,
          ret |-> [is_exists |-> st.keys.is_exists,
                   verify_key_hex |-> st.keys.verify_key_hex,
                   pubkp |-> st.keys.pubkp,
                   id_hex |-> IdHex(pid)],
          st |-> st]

rust_dkg_round1(st, pid, fail) ==
    IF fail
    THEN EngineError(st)
    ELSE [ok |-> TRUE,
          ret |-> [id_hex |-> IdHex(pid), pkg_hex |-> <<"r1pkg", pid>>],
          st |-> [st EXCEPT !.stage = "r1"]]

\* one (target, payload) entry per round-1 package received; omit selects
\* the faulty outcome whose output lacks the entry for package number omit
\* (0: the output is complete)
rust_dkg_round2(st, id, pkgs, omit, fail) ==
    IF fail \/ st.stage = "none"
    THEN EngineError(st)
    ELSE LET kept == SelectSeq([k \in 1..Len(pkgs) |-> k], LAMBDA k : k # omit) IN
         [ok |-> TRUE,
          ret |-> [j \in 1..Len(kept) |->
                     <<pkgs[kept[j]][1], <<"r2pkg", id, pkgs[kept[j]][1]>>>>],
          st |-> [st EXCEPT !.stage = "r2"]]

\* a is the Group Public Artifacts value the finalisation arrives at; it
\* needs one round-2 payload per round-1 package
rust_dkg_round3(st, id, r1, r2, a, fail) ==
    IF fail \/ st.stage # "r2" \/ Len(r2) # Len(r1)
    THEN EngineError(st)
    ELSE [ok |-> TRUE,
          ret |-> [pubkp |-> KeysOf(a).pubkp, verify_key_hex |-> KeysOf(a).verify_key_hex],
          st |-> [st EXCEPT !.stage = "none", !.keys = KeysOf(a)]]

rust_sign_round1(st, id, fail) ==
    IF fail \/ ~st.keys.is_exists
    THEN EngineError(st)
    ELSE [ok |-> TRUE,
          ret |-> <<id, st.nonceCtr + 1>>,
          st |-> [st EXCEPT !.nonce = <<id, st.nonceCtr + 1>>,
                            !.nonceCtr = st.nonceCtr + 1]]

rust_sign_round2(st, id, msg, commitments, fail) ==
    IF \/ fail
       \/ ~st.keys.is_exists
       \/ st.nonce = NoNonce
       \/ ~\E k \in 1..Len(commitments) : commitments[k] = <<id, st.nonce>>
    THEN EngineError(st)
    ELSE [ok |-> TRUE,
          ret |-> <<"share", id, msg, st.nonce>>,
          st |-> [st EXCEPT !.nonce = NoNonce]]

\* aggregation succeeds when every share was computed over msg and over the
\* commitment its signer has in the commitment list
rust_aggregate_signature(msg, sig_shares, commitments, pubkp_hex) ==
    IF /\ Len(sig_shares) = Len(commitments)
       /\ \A k \in 1..Len(sig_shares) :
            \E c \in 1..Len(commitments) :
                /\ commitments[c][1] = sig_shares[k][1]
                /\ sig_shares[k][2] = <<"share", sig_shares[k][1], msg, commitments[c][2]>>
    THEN [ok |-> TRUE, ret |-> <<"sig", msg, pubkp_hex>>]
    ELSE [ok |-> FALSE]

\* ------------------------------------------------------------ signer node
\* A handler returns [resp, st, called, refused]: the HTTP response, the
\* node's state afterwards, the engine operations it invoked and whether
\* the policy check rejected.
Reply(r, st, called, rej) == [resp |-> r, st |-> st, called |-> called, refused |-> rej]

\* handle_rust_error: both branches answer 500; e is the exception's type
handle_rust_error(e, context) ==
    IF e \in {"RuntimeError", "ValueError", "ConnectionError", "OSError", "SystemError"}
    THEN Http(500, [detail |-> <<"Internal Server Error", context, e>>])
    ELSE Http(500, [detail |-> <<"Internal Server Error", context, "Unexpected error type", e>>])

\* the deployed policy hook: the set of verdicts it can give.  The hook in
\* the source ("default") approves everything; a deployment that replaced
\* it ("custom") may also reject.
dummy_verify(pol, message_hex) == IF pol = "default" THEN {TRUE} ELSE BOOLEAN

\* (mutation of dkg_status: the status call re-initialises the key store)
dkg_status_Reinit(st, pid, fail) ==
    LET e == rust_init(st, pid, fail) IN
    IF e.ok
    THEN Reply(Http(200, [id |-> pid, is_exist |-> e.ret.is_exists,
                          verify_key_hex |-> e.ret.verify_key_hex,
                          pubkp_hex |-> e.ret.pubkp, id_hex |-> e.ret.id_hex]),
               [e.st EXCEPT !.PID_HEX = e.ret.id_hex, !.keys = NoKeys], {"init"}, FALSE)
    ELSE Reply(handle_rust_error("RuntimeError", "DKG Status Check"), e.st, {"init"}, FALSE)

dkg_status(st, pid, fail) ==
    LET e == rust_init(st, pid, fail) IN
    IF e.ok
    THEN Reply(Http(200, [id |-> pid, is_exist |-> e.ret.is_exists,
                          verify_key_hex |-> e.ret.verify_key_hex,
                          pubkp_hex |-> e.ret.pubkp, id_hex |-> e.ret.id_hex]),
               [e.st EXCEPT !.PID_HEX = e.ret.id_hex], {"init"}, FALSE)
    ELSE Reply(handle_rust_error("RuntimeError", "DKG Status Check"), e.st, {"init"}, FALSE)

dkg_round1_endpoint(st, pid, fail) ==
    LET e == rust_dkg_round1(st, pid, fail) IN
    IF e.ok
    THEN Reply(Http(200, [id_hex |-> e.ret.id_hex, pkg_hex |-> e.ret.pkg_hex]),
               [e.st EXCEPT !.PID_HEX = e.ret.id_hex], {"dkg_round1"}, FALSE)
    ELSE Reply(handle_rust_error("RuntimeError", "DKG Round 1"), e.st, {"dkg_round1"}, FALSE)

dkg_round2_endpoint(st, pid, body, omit, fail) ==
    IF body.pkgs_hex = <<>>
    THEN Reply(Http(400, [detail |-> <<"Missing 'pkgs_hex' in request body">>]), st, {}, FALSE)
    ELSE IF st.PID_HEX = Unset
    THEN Reply(handle_rust_error("NameError", "DKG Round 2"), st, {}, FALSE)
    ELSE LET e == rust_dkg_round2(st, st.PID_HEX, body.pkgs_hex, omit, fail) IN
         IF e.ok
         THEN Reply(Http(200, [id_hex |-> st.PID_HEX, pkgs2_json |-> e.ret]),
                    e.st, {"dkg_round2"}, FALSE)
         ELSE Reply(handle_rust_error("RuntimeError", "DKG Round 2"), e.st, {"dkg_round2"}, FALSE)

\* (mutation of dkg_round3_endpoint: only the round-1 list is validated)
dkg_round3_endpoint_R1Only(st, pid, body, a, fail) ==
    IF body.r1_pkgs_hex = <<>>
    THEN Reply(Http(400, [detail |-> <<"Missing 'r1_pkgs_hex' or 'r2_pkgs_hex' in request body">>]),
               st, {}, FALSE)
    ELSE IF st.PID_HEX = Unset
    THEN Reply(handle_rust_error("NameError", "DKG Round 3"), st, {}, FALSE)
    ELSE LET e == rust_dkg_round3(st, st.PID_HEX, body.r1_pkgs_hex, body.r2_pkgs_hex, a, fail) IN
         IF e.ok
         THEN Reply(Http(200, [id |-> pid, verify_key_hex |-> e.ret.verify_key_hex,
                               pubkp_hex |-> e.ret.pubkp]),
                    e.st, {"dkg_round3"}, FALSE)
         ELSE Reply(handle_rust_error("RuntimeError", "DKG Round 3"), e.st, {"dkg_round3"}, FALSE)

dkg_round3_endpoint(st, pid, body, a, fail) ==
    IF body.r1_pkgs_hex = <<>> \/ body.r2_pkgs_hex = <<>>
    THEN Reply(Http(400, [detail |-> <<"Missing 'r1_pkgs_hex' or 'r2_pkgs_hex' in request body">>]),
               st, {}, FALSE)
    ELSE IF st.PID_HEX = Unset
    THEN Reply(handle_rust_error("NameError", "DKG Round 3"), st, {}, FALSE)
    ELSE LET e == rust_dkg_round3(st, st.PID_HEX, body.r1_pkgs_hex, body.r2_pkgs_hex, a, fail) IN
         IF e.ok
         THEN Reply(Http(200, [id |-> pid, verify_key_hex |-> e.ret.verify_key_hex,
                               pubkp_hex |-> e.ret.pubkp]),
                    e.st, {"dkg_round3"}, FALSE)
         ELSE Reply(handle_rust_error("RuntimeError", "DKG Round 3"), e.st, {"dkg_round3"}, FALSE)

\* (mutation of signing_round1: a commitment still pending is handed out again)
signing_round1_Replay(st, pid, fail) ==
    IF st.PID_HEX # Unset /\ st.nonce # NoNonce
    THEN Reply(Http(200, [id |-> st.PID_HEX, commitment |-> st.nonce]), st, {}, FALSE)
    ELSE IF st.PID_HEX = Unset
    THEN Reply(handle_rust_error("NameError", "Signing Round 1"), st, {}, FALSE)
    ELSE LET e == rust_sign_round1(st, st.PID_HEX, fail) IN
         IF e.ok
         THEN Reply(Http(200, [id |-> st.PID_HEX, commitment |-> e.ret]),
                    e.st, {"sign_round1"}, FALSE)
         ELSE Reply(handle_rust_error("RuntimeError", "Signing Round 1"), e.st, {"sign_round1"}, FALSE)

\* (mutation of signing_round1: without PID_HEX the identifier is derived
\* from PARTY_ID by the engine)
signing_round1_FromPid(st, pid, fail) ==
    LET e == rust_sign_round1(st, IdHex(pid), fail) IN
    IF e.ok
    THEN Reply(Http(200, [id |-> IdHex(pid), commitment |-> e.ret]),
               e.st, {"sign_round1"}, FALSE)
    ELSE Reply(handle_rust_error("RuntimeError", "Signing Round 1"), e.st, {"sign_round1"}, FALSE)

signing_round1(st, pid, fail) ==
    IF st.PID_HEX = Unset
    THEN Reply(handle_rust_error("NameError", "Signing Round 1"), st, {}, FALSE)
    ELSE LET e == rust_sign_round1(st, st.PID_HEX, fail) IN
         IF e.ok
         THEN Reply(Http(200, [id |-> st.PID_HEX, commitment |-> e.ret]),
                    e.st, {"sign_round1"}, FALSE)
         ELSE Reply(handle_rust_error("RuntimeError", "Signing Round 1"), e.st, {"sign_round1"}, FALSE)

\* the HTTPException(400) of a rejected message is raised inside the try
\* block, so the except clause hands it to handle_rust_error
signing_round2(st, pid, body, is_valid, fail) ==
    IF ~is_valid
    THEN Reply(handle_rust_error("HTTPException", "Signing Round 2"), st, {}, TRUE)
    ELSE IF st.PID_HEX = Unset
    THEN Reply(handle_rust_error("NameError", "Signing Round 2"), st, {}, FALSE)
    ELSE LET e == rust_sign_round2(st, st.PID_HEX, body.message_hex, body.commitments, fail) IN
         IF e.ok
         THEN Reply(Http(200, [id |-> st.PID_HEX, sig_share |-> e.ret]),
                    e.st, {"sign_round2"}, FALSE)
         ELSE Reply(handle_rust_error("RuntimeError", "Signing Round 2"), e.st, {"sign_round2"}, FALSE)

\* ------------------------------------------------------------ coordinator
\* (mutation of GatherDone: a first-to-respond race instead of a join)
GatherDone_FirstResponse(r) == \E i \in Nodes : r[i].kind = "http"

\* asyncio.gather: returns once every awaited request has its response,
\* raises as soon as one of them raised
GatherDone(r) == \A i \in Nodes : r[i].kind = "http"
GatherRaises(r) == \E i \in Nodes : r[i] = TransportError

\* (mutation of JsonAll: the bodies are taken in another order than SIGNERS)
JsonAll_Rotated(r) == [i \in Nodes |-> Json(r[(i % N) + 1])]

\* [resp.json() for resp in responses], in SIGNERS order
JsonAll(r) == [i \in Nodes |-> Json(r[i])]

\* the loop of check_dkg_status from position k on: "KeyError" when a body
\* has no "is_exist", "needed" at the first node without keys, else "exist"
\* (mutation of StatusLoop: running off the end of the list means DKG is needed)
RECURSIVE StatusLoop_NeverExist(_, _)
StatusLoop_NeverExist(statuses, k) ==
    IF k > Len(statuses) THEN "needed"
    ELSE IF ~Has(statuses[k], "is_exist") THEN "KeyError"
    ELSE IF ~statuses[k].is_exist THEN "needed"
    ELSE StatusLoop_NeverExist(statuses, k + 1)

RECURSIVE StatusLoop(_, _)
StatusLoop(statuses, k) ==
    IF k > Len(statuses) THEN "exist"
    ELSE IF ~Has(statuses[k], "is_exist") THEN "KeyError"
    ELSE IF ~statuses[k].is_exist THEN "needed"
    ELSE StatusLoop(statuses, k + 1)

\* (mutation of check_dkg_status: existing keys are never recognised)
check_dkg_status_AlwaysNeeded(statuses) ==
    [raised |-> FALSE, ret |-> <<FALSE, <<"", 0>>, <<"", 0>>>>]

check_dkg_status(statuses) ==
    LET v == StatusLoop(statuses, 1) IN
    IF v = "KeyError" THEN [raised |-> TRUE, ret |-> <<FALSE, <<"", 0>>, <<"", 0>>>>]
    ELSE IF v = "needed" THEN [raised |-> FALSE, ret |-> <<FALSE, <<"", 0>>, <<"", 0>>>>]
    ELSE [raised |-> FALSE,
          ret |-> <<TRUE, statuses[1].verify_key_hex, statuses[1].pubkp_hex>>]

\* [(data[a], data[b]) for data in datas]: raises KeyError when a body
\* lacks one of the keys
Pairs(datas, a, b) ==
    IF \E k \in 1..Len(datas) : ~Has(datas[k], a) \/ ~Has(datas[k], b)
    THEN [raised |-> TRUE, ret |-> <<>>]
    ELSE [raised |-> FALSE, ret |-> [k \in 1..Len(datas) |-> <<datas[k][a], datas[k][b]>>]]

\* r1_pkgs = [(data["id_hex"], data["pkg_hex"]) for data in round1_data]
R1Pkgs(data) == Pairs(data, "id_hex", "pkg_hex")

\* (mutation of R2PkgsJson: bodies without round-2 output are skipped)
R2PkgsJson_SkipFailed(data) ==
    LET good == SelectSeq(data, LAMBDA d : Has(d, "id_hex") /\ Has(d, "pkgs2_json")) IN
    [raised |-> FALSE, ret |-> [k \in 1..Len(good) |-> <<good[k].id_hex, good[k].pkgs2_json>>]]

\* r2_pkgs_json = [(data["id_hex"], data["pkgs2_json"]) for data in round2_data]
R2PkgsJson(data) == Pairs(data, "id_hex", "pkgs2_json")

\* round1_commitments = [(resp.json()["id"], resp.json()["commitment"]) ...]
Commitments(data) == Pairs(data, "id", "commitment")

\* (mutation of SigShares: bodies without a signature share are skipped)
SigShares_SkipFailed(data) ==
    LET good == SelectSeq(data, LAMBDA d : Has(d, "id") /\ Has(d, "sig_share")) IN
    [raised |-> FALSE, ret |-> [k \in 1..Len(good) |-> <<good[k].id, good[k].sig_share>>]]

\* sig_shares = [(resp.json()["id"], resp.json()["sig_share"]) ...]
SigShares(data) == Pairs(data, "id", "sig_share")

\* pkgs_for_signer = [pkg for pkg in r1_pkgs if pkg[0] != self_id]
Round2Body(r1_pkgs, self_id) ==
    [pkgs_hex |-> SelectSeq(r1_pkgs, LAMBDA pkg : pkg[1] # self_id)]

\* r2_pkgs: one (sender_id, (target_id, pkg_hex)) per entry of every
\* node's pkgs2_json, in SIGNERS order
RECURSIVE FlattenR2(_)
FlattenR2(r2_pkgs_json) ==
    IF r2_pkgs_json = <<>> THEN <<>>
    ELSE LET sender_id == Head(r2_pkgs_json)[1]
             pkgs == Head(r2_pkgs_json)[2]
         IN  [k \in 1..Len(pkgs) |-> <<sender_id, pkgs[k]>>] \o FlattenR2(Tail(r2_pkgs_json))

\* (mutation of R1ForSigner: every round-1 package goes to every signer)
R1ForSigner_All(r1_pkgs, self_id) == r1_pkgs

\* (sender_id, pkg) for sender_id, pkg in r1_pkgs if sender_id != self_id
R1ForSigner(r1_pkgs, self_id) == SelectSeq(r1_pkgs, LAMBDA pkg : pkg[1] # self_id)

\* (mutation of R2ForSigner: filtered by sender instead of by target)
R2ForSigner_BySender(r2, self_id) ==
    LET mine == SelectSeq(r2, LAMBDA e : e[1] # self_id) IN
    [k \in 1..Len(mine) |-> <<mine[k][1], mine[k][2][2]>>]

\* (sender_id, pkg[1]) for sender_id, pkg in r2_pkgs if pkg[0] == self_id
R2ForSigner(r2, self_id) ==
    LET mine == SelectSeq(r2, LAMBDA e : e[2][1] = self_id) IN
    [k \in 1..Len(mine) |-> <<mine[k][1], mine[k][2][2]>>]

Round3Body(r1_pkgs, r2, self_id) ==
    [r1_pkgs_hex |-> R1ForSigner(r1_pkgs, self_id),
     r2_pkgs_hex |-> R2ForSigner(r2, self_id)]

\* (mutation of SignRound2Body: the receiver's own commitment is left out)
SignRound2Body_ExcludeOwn(msg, commitments, sid) ==
    [message_hex |-> msg, commitments |-> SelectSeq(commitments, LAMBDA c : c[1] # sid)]

\* body of the sign/round2 request built in the loop turn of signer sid
SignRound2Body(msg, commitments, sid) == [message_hex |-> msg, commitments |-> commitments]

\* what run_dkg does with round3_data: it reads round3_data[0] only
Round3Outcome(data) ==
    IF Has(data[1], "verify_key_hex") /\ Has(data[1], "pubkp_hex")
    THEN [raised |-> FALSE, ret |-> <<data[1].verify_key_hex, data[1].pubkp_hex>>]
    ELSE [raised |-> TRUE, ret |-> NoArtifacts]

\* the tasks of one round are created and awaited together: one request
\* per SIGNERS entry.  after records which responses of the round before
\* were in hand.
Dispatch(kind, bodies) ==
    /\ req' = [i \in Nodes |-> [kind |-> kind, body |-> bodies[i]]]
    /\ resp' = [i \in Nodes |-> NoResp]
    /\ sent' = (IF kind \in {"status", "s1"} THEN {} ELSE sent) \cup
               { [round |-> kind, node |-> i, body |-> bodies[i],
                  after |-> {j \in Nodes : resp[j] # NoResp}] : i \in Nodes }
    /\ pc' = kind

NoBodies == [i \in Nodes |-> <<>>]

\* the run ends: leaving "async with httpx.AsyncClient()" closes the client,
\* which abandons the requests no node has handled yet
Return(op, value) ==
    /\ pc' = "idle"
    /\ req' = [i \in Nodes |-> NoReq]
    /\ result' = [op |-> op, status |-> "returned", value |-> value, error |-> "none"]
    /\ dkg_result' = IF op = "run_dkg" THEN value ELSE dkg_result

Raise(op, error) ==
    /\ pc' = "idle"
    /\ req' = [i \in Nodes |-> NoReq]
    /\ result' = [op |-> op, status |-> "raised", value |-> NoArtifacts, error |-> error]
    /\ dkg_result' = dkg_result

Running(op) == [op |-> op, status |-> "running", value |-> NoArtifacts, error |-> "none"]

\* a run starts when none is under way
CanStart ==
    /\ pc = "idle"
    /\ runs < MaxRuns

\* run_dkg is called: the status requests go out
StartDkg ==
    /\ CanStart
    /\ runs' = runs + 1
    /\ result' = Running("run_dkg")
    /\ Dispatch("status", NoBodies)
    /\ served' = {}
    /\ round1_data' = <<>>
    /\ round1_commitments' = <<>>
    /\ UNCHANGED <<nodeVars, N, policy, probe, other, message, dkg_result, faults>>

\* check_dkg_status has every status, run_dkg acts on its verdict
DkgStatusDone ==
    /\ pc = "status"
    /\ GatherDone(resp)
    /\ LET c == check_dkg_status(JsonAll(resp)) IN
       \/ /\ c.raised
          /\ Raise("run_dkg", "KeyError")
          /\ UNCHANGED <<resp, sent>>
       \/ /\ ~c.raised /\ c.ret[1]
          /\ Return("run_dkg", <<c.ret[2], c.ret[3]>>)
          /\ UNCHANGED <<resp, sent>>
       \/ /\ ~c.raised /\ ~c.ret[1]
          /\ Dispatch("r1", NoBodies)
          /\ UNCHANGED <<result, dkg_result>>
    /\ UNCHANGED <<nodeVars, N, policy, probe, other, round1_data, round1_commitments,
                   message, runs, served, faults>>

\* round 1 is in: build each node's round-2 body and send it
DkgRound1Done ==
    /\ pc = "r1"
    /\ GatherDone(resp)
    /\ LET data == JsonAll(resp)
           r1_pkgs == R1Pkgs(data)
       IN
       \/ /\ r1_pkgs.raised
          /\ Raise("run_dkg", "KeyError")
          /\ UNCHANGED <<resp, sent, round1_data>>
       \/ /\ ~r1_pkgs.raised
          /\ round1_data' = data
          /\ Dispatch("r2", [i \in Nodes |-> Round2Body(r1_pkgs.ret, data[i].id_hex)])
          /\ UNCHANGED <<result, dkg_result>>
    /\ UNCHANGED <<nodeVars, N, policy, probe, other, round1_commitments, message, runs,
                   served, faults>>

\* round 2 is in: flatten, build each node's round-3 body and send it
DkgRound2Done ==
    /\ pc = "r2"
    /\ GatherDone(resp)
    /\ LET r2_pkgs_json == R2PkgsJson(JsonAll(resp)) IN
       \/ /\ r2_pkgs_json.raised
          /\ Raise("run_dkg", "KeyError")
          /\ UNCHANGED <<resp, sent>>
       \/ /\ ~r2_pkgs_json.raised
          /\ Dispatch("r3", [i \in Nodes |->
                 Round3Body(R1Pkgs(round1_data).ret, FlattenR2(r2_pkgs_json.ret),
                            round1_data[i].id_hex)])
          /\ UNCHANGED <<result, dkg_result>>
    /\ UNCHANGED <<nodeVars, N, policy, probe, other, round1_data, round1_commitments, message, runs,
                   served, faults>>

\* round 3 is in: run_dkg returns what the first node answered
DkgRound3Done ==
    /\ pc = "r3"
    /\ GatherDone(resp)
    /\ LET o == Round3Outcome(JsonAll(resp)) IN
       \/ /\ o.raised
          /\ Raise("run_dkg", "KeyError")
       \/ /\ ~o.raised
          /\ Return("run_dkg", o.ret)
    /\ UNCHANGED <<nodeVars, N, policy, probe, other, resp, sent, round1_data,
                   round1_commitments, message, runs, served, faults>>

\* coordinate_frost_sign(msg, pubkp_hex) is called with the public key
\* package run_dkg returned
StartSign(msg) ==
    /\ CanStart
    /\ dkg_result # NoArtifacts
    /\ runs' = runs + 1
    /\ message' = msg
    /\ result' = Running("coordinate_frost_sign")
    /\ Dispatch("s1", NoBodies)
    /\ served' = {}
    /\ round1_data' = <<>>
    /\ round1_commitments' = <<>>
    /\ UNCHANGED <<nodeVars, N, policy, probe, other, dkg_result, faults>>

\* the commitments are in: send them, with the message, to every node
SignRound1Done ==
    /\ pc = "s1"
    /\ GatherDone(resp)
    /\ LET c == Commitments(JsonAll(resp)) IN
       \/ /\ c.raised
          /\ Raise("coordinate_frost_sign", "KeyError")
          /\ UNCHANGED <<resp, sent, round1_commitments>>
       \/ /\ ~c.raised
          /\ round1_commitments' = c.ret
          /\ Dispatch("s2", [i \in Nodes |-> SignRound2Body(message, c.ret, c.ret[i][1])])
          /\ UNCHANGED <<result, dkg_result>>
    /\ UNCHANGED <<nodeVars, N, policy, probe, other, round1_data, message, runs, served, faults>>

\* the signature shares are in: aggregate them
SignRound2Done ==
    /\ pc = "s2"
    /\ GatherDone(resp)
    /\ LET sig_shares == SigShares(JsonAll(resp)) IN
       \/ /\ sig_shares.raised
          /\ Raise("coordinate_frost_sign", "KeyError")
       \/ /\ ~sig_shares.raised
          /\ LET agg == rust_aggregate_signature(message, sig_shares.ret,
                                                 round1_commitments, dkg_result[2])
             IN  IF agg.ok
                 THEN Return("coordinate_frost_sign", agg.ret)
                 ELSE Raise("coordinate_frost_sign", "RuntimeError")
    /\ UNCHANGED <<nodeVars, N, policy, probe, other, resp, sent, round1_data,
                   round1_commitments, message, runs, served, faults>>

\* the gather of the current round raises: the run ends with that exception
GatherFailed ==
    /\ pc # "idle"
    /\ GatherRaises(resp)
    /\ Raise(result.op, "TransportError")
    /\ UNCHANGED <<nodeVars, N, policy, probe, other, resp, sent, round1_data,
                   round1_commitments, message, runs, served, faults>>

\* ------------------------------------------------------------ transport
Cost(b) == IF b THEN 1 ELSE 0

\* node i ran a handler with outcome out; the response reaches the gather
\* slot of the round that sent the request, unless it is lost on the way.
\* fault: the outcome is an injected fault of the engine.
Serve(i, out, fault, lost) ==
    /\ faults + Cost(fault) + Cost(lost) <= MaxFaults
    /\ faults' = faults + Cost(fault) + Cost(lost)
    /\ PID_HEX' = [PID_HEX EXCEPT ![i] = out.st.PID_HEX]
    /\ keys' = [keys EXCEPT ![i] = out.st.keys]
    /\ stage' = [stage EXCEPT ![i] = out.st.stage]
    /\ nonce' = [nonce EXCEPT ![i] = out.st.nonce]
    /\ nonceCtr' = [nonceCtr EXCEPT ![i] = out.st.nonceCtr]
    /\ served' = served \cup
           { [node |-> i, kind |-> req[i].kind, resp |-> out.resp,
              called |-> out.called, refused |-> out.refused,
              delivered |-> ~lost] }
    /\ resp' = [resp EXCEPT ![i] = IF lost THEN TransportError ELSE out.resp]
    /\ req' = [req EXCEPT ![i] = NoReq]
    /\ UNCHANGED <<N, policy, probe, other, coordVars>>

NodeStatus(i) ==
    /\ req[i].kind = "status"
    /\ \E fail \in BOOLEAN, lost \in BOOLEAN :
         Serve(i, dkg_status(NodeState(i), PID(i), fail), fail, lost)

NodeDkgRound1(i) ==
    /\ req[i].kind = "r1"
    /\ \E fail \in BOOLEAN, lost \in BOOLEAN :
         Serve(i, dkg_round1_endpoint(NodeState(i), PID(i), fail), fail, lost)

NodeDkgRound2(i) ==
    /\ req[i].kind = "r2"
    /\ \E omit \in 0..Len(req[i].body.pkgs_hex), fail \in BOOLEAN, lost \in BOOLEAN :
         /\ fail => omit = 0
         /\ Serve(i, dkg_round2_endpoint(NodeState(i), PID(i), req[i].body, omit, fail),
                  fail \/ omit # 0, lost)

\* a finalisation that arrives at artifacts other than the sound ones is
\* an injected fault, like an engine error or an incomplete round-2 output
NodeDkgRound3(i) ==
    /\ req[i].kind = "r3"
    /\ \E a \in Artifacts(runs), fail \in BOOLEAN, lost \in BOOLEAN :
         /\ fail => a = Sound(runs)
         /\ Serve(i, dkg_round3_endpoint(NodeState(i), PID(i), req[i].body, a, fail),
                  fail \/ a # Sound(runs), lost)

NodeSignRound1(i) ==
    /\ req[i].kind = "s1"
    /\ \E fail \in BOOLEAN, lost \in BOOLEAN :
         Serve(i, signing_round1(NodeState(i), PID(i), fail), fail, lost)

NodeSignRound2(i) ==
    /\ req[i].kind = "s2"
    /\ \E is_valid \in dummy_verify(policy, req[i].body.message_hex),
          fail \in BOOLEAN, lost \in BOOLEAN :
         Serve(i, signing_round2(NodeState(i), PID(i), req[i].body, is_valid, fail),
               fail, lost)

\* the request to node i never reaches it and the awaited task raises
ConnectError(i) ==
    /\ req[i] # NoReq
    /\ faults < MaxFaults
    /\ faults' = faults + 1
    /\ resp' = [resp EXCEPT ![i] = TransportError]
    /\ req' = [req EXCEPT ![i] = NoReq]
    /\ served' = served \cup
           { [node |-> i, kind |-> req[i].kind, resp |-> TransportError,
              called |-> {}, refused |-> FALSE, delivered |-> FALSE] }
    /\ UNCHANGED <<nodeVars, N, policy, probe, other, coordVars>>

\* ------------------------------------------------------------ second session
\* A second invocation of coordinate_frost_sign (another coordinator
\* process) over the same signer nodes, with its own local variables.
NoOther ==
    [pc |-> "idle", req |-> [i \in Nodes |-> NoReq], resp |-> [i \in Nodes |-> NoResp],
     round1_commitments |-> <<>>, message |-> "msg", pubkp_hex |-> <<"", 0>>,
     result |-> NoResult, served |-> {}]

OtherDispatch(kind, bodies) ==
    [other EXCEPT !.pc = kind,
                  !.req = [i \in Nodes |-> [kind |-> kind, body |-> bodies[i]]],
                  !.resp = [i \in Nodes |-> NoResp]]

OtherEnd(status, value, error) ==
    [other EXCEPT !.pc = "idle",
                  !.req = [i \in Nodes |-> NoReq],
                  !.result = [op |-> "coordinate_frost_sign", status |-> status,
                              value |-> value, error |-> error]]

OtherStartSign(msg) ==
    /\ other.pc = "idle"
    /\ other.result = NoResult
    /\ runs < MaxRuns
    /\ dkg_result # NoArtifacts
    /\ runs' = runs + 1
    /\ other' = [OtherDispatch("s1", NoBodies) EXCEPT
                    !.message = msg, !.pubkp_hex = dkg_result[2],
                    !.result = Running("coordinate_frost_sign")]
    /\ UNCHANGED <<nodeVars, N, policy, probe, pc, req, resp, round1_data, round1_commitments,
                   message, result, dkg_result, sent, served, faults>>

OtherSignRound1Done ==
    /\ other.pc = "s1"
    /\ GatherDone(other.resp)
    /\ LET c == Commitments(JsonAll(other.resp)) IN
       other' = IF c.raised
                THEN OtherEnd("raised", NoArtifacts, "KeyError")
                ELSE [OtherDispatch("s2", [i \in Nodes |->
                          SignRound2Body(other.message, c.ret, c.ret[i][1])])
                      EXCEPT !.round1_commitments = c.ret]
    /\ UNCHANGED <<nodeVars, N, policy, probe, coordVars, req, resp, served, faults>>

OtherSignRound2Done ==
    /\ other.pc = "s2"
    /\ GatherDone(other.resp)
    /\ LET sig_shares == SigShares(JsonAll(other.resp)) IN
       other' = IF sig_shares.raised
                THEN OtherEnd("raised", NoArtifacts, "KeyError")
                ELSE LET agg == rust_aggregate_signature(other.message, sig_shares.ret,
                                    other.round1_commitments, other.pubkp_hex)
                     IN  IF agg.ok
                         THEN OtherEnd("returned", agg.ret, "none")
                         ELSE OtherEnd("raised", NoArtifacts, "RuntimeError")
    /\ UNCHANGED <<nodeVars, N, policy, probe, coordVars, req, resp, served, faults>>

OtherGatherFailed ==
    /\ other.pc # "idle"
    /\ GatherRaises(other.resp)
    /\ other' = OtherEnd("raised", NoArtifacts, "TransportError")
    /\ UNCHANGED <<nodeVars, N, policy, probe, coordVars, req, resp, served, faults>>

OtherServe(i, out, fault, lost) ==
    /\ faults + Cost(fault) + Cost(lost) <= MaxFaults
    /\ faults' = faults + Cost(fault) + Cost(lost)
    /\ PID_HEX' = [PID_HEX EXCEPT ![i] = out.st.PID_HEX]
    /\ keys' = [keys EXCEPT ![i] = out.st.keys]
    /\ stage' = [stage EXCEPT ![i] = out.st.stage]
    /\ nonce' = [nonce EXCEPT ![i] = out.st.nonce]
    /\ nonceCtr' = [nonceCtr EXCEPT ![i] = out.st.nonceCtr]
    /\ other' = [other EXCEPT
           !.served = @ \cup { [node |-> i, kind |-> other.req[i].kind, resp |-> out.resp,
                                called |-> out.called, refused |-> out.refused,
                                delivered |-> ~lost] },
           !.resp[i] = IF lost THEN TransportError ELSE out.resp,
           !.req[i] = NoReq]
    /\ UNCHANGED <<N, policy, probe, coordVars, req, resp, served>>

OtherNodeSignRound1(i) ==
    /\ other.req[i].kind = "s1"
    /\ \E fail \in BOOLEAN, lost \in BOOLEAN :
         OtherServe(i, signing_round1(NodeState(i), PID(i), fail), fail, lost)

OtherNodeSignRound2(i) ==
    /\ other.req[i].kind = "s2"
    /\ \E is_valid \in dummy_verify(policy, other.req[i].body.message_hex),
          fail \in BOOLEAN, lost \in BOOLEAN :
         OtherServe(i, signing_round2(NodeState(i), PID(i), other.req[i].body, is_valid, fail),
                    fail, lost)

OtherConnectError(i) ==
    /\ other.req[i] # NoReq
    /\ faults < MaxFaults
    /\ faults' = faults + 1
    /\ other' = [other EXCEPT
           !.served = @ \cup { [node |-> i, kind |-> other.req[i].kind,
                                resp |-> TransportError, called |-> {},
                                refused |-> FALSE, delivered |-> FALSE] },
           !.resp[i] = TransportError,
           !.req[i] = NoReq]
    /\ UNCHANGED <<nodeVars, N, policy, probe, coordVars, req, resp, served>>

\* ------------------------------------------------------------ direct requests
\* The signers' endpoints answer whoever posts to them.  A client posts
\* requests to the nodes one at a time; probe records the last one: the
\* node's state before it and the handler's outcome.
NoProbe == [n |-> 0, kind |-> "none"]

\* the round-1 packages and round-2 payloads of the participants other than i
OthersR1(i) ==
    LET js == SelectSeq([k \in Nodes |-> k], LAMBDA j : j # i) IN
    [k \in 1..Len(js) |-> <<IdHex(PID(js[k])), <<"r1pkg", PID(js[k])>>>>]

OthersR2(i) ==
    LET js == SelectSeq([k \in Nodes |-> k], LAMBDA j : j # i) IN
    [k \in 1..Len(js) |-> <<IdHex(PID(js[k])), <<"r2pkg", IdHex(PID(js[k])), IdHex(PID(i))>>>>]

\* bodies a client may post: well-formed ones, empty lists, and round-1
\* lists that hold the receiver's own package (in addition to the others',
\* or in place of one of them)
Round2Bodies(i) ==
    LET own == <<<<IdHex(PID(i)), <<"r1pkg", PID(i)>>>>>> IN
    { [pkgs_hex |-> l] :
        l \in {<<>>, OthersR1(i), own \o OthersR1(i), own \o Tail(OthersR1(i))} }

Round3Bodies(i) ==
    { [r1_pkgs_hex |-> a, r2_pkgs_hex |-> b] :
        a \in {<<>>, OthersR1(i)}, b \in {<<>>, OthersR2(i)} }

SignBodies(i) ==
    { [message_hex |-> m, commitments |-> c] :
        m \in Messages, c \in {<<>>, <<<<IdHex(PID(i)), nonce[i]>>>>} }

Direct(i, kind, body, out, fault) ==
    /\ probe.n < MaxCalls
    /\ faults + Cost(fault) <= MaxFaults
    /\ faults' = faults + Cost(fault)
    /\ PID_HEX' = [PID_HEX EXCEPT ![i] = out.st.PID_HEX]
    /\ keys' = [keys EXCEPT ![i] = out.st.keys]
    /\ stage' = [stage EXCEPT ![i] = out.st.stage]
    /\ nonce' = [nonce EXCEPT ![i] = out.st.nonce]
    /\ nonceCtr' = [nonceCtr EXCEPT ![i] = out.st.nonceCtr]
    /\ probe' = [n |-> probe.n + 1, node |-> i, kind |-> kind, body |-> body,
                 before |-> NodeState(i), out |-> out]
    /\ UNCHANGED <<N, policy, other, coordVars, req, resp, served>>

DirectStatus(i) ==
    \E fail \in BOOLEAN :
        Direct(i, "status", <<>>, dkg_status(NodeState(i), PID(i), fail), fail)

DirectDkgRound1(i) ==
    \E fail \in BOOLEAN :
        Direct(i, "r1", <<>>, dkg_round1_endpoint(NodeState(i), PID(i), fail), fail)

DirectDkgRound2(i) ==
    \E body \in Round2Bodies(i), fail \in BOOLEAN :
        Direct(i, "r2", body, dkg_round2_endpoint(NodeState(i), PID(i), body, 0, fail), fail)

DirectDkgRound3(i) ==
    \E body \in Round3Bodies(i), fail \in BOOLEAN :
        Direct(i, "r3", body,
               dkg_round3_endpoint(NodeState(i), PID(i), body, Sound(runs), fail), fail)

DirectSignRound1(i) ==
    \E fail \in BOOLEAN :
        Direct(i, "s1", <<>>, signing_round1(NodeState(i), PID(i), fail), fail)

DirectSignRound2(i) ==
    \E body \in SignBodies(i), fail \in BOOLEAN :
      \E is_valid \in dummy_verify(policy, body.message_hex) :
        Direct(i, "s2", body, signing_round2(NodeState(i), PID(i), body, is_valid, fail), fail)

\* ------------------------------------------------------------ specification
\* a fresh group: no node has keys, no node process has served a request
Fresh ==
    /\ PID_HEX = [i \in Nodes |-> Unset]
    /\ keys = [i \in Nodes |-> NoKeys]
    /\ stage = [i \in Nodes |-> "none"]
    /\ nonce = [i \in Nodes |-> NoNonce]
    /\ nonceCtr = [i \in Nodes |-> 0]
    /\ pc = "idle"
    /\ req = [i \in Nodes |-> NoReq]
    /\ resp = [i \in Nodes |-> NoResp]
    /\ round1_data = <<>>
    /\ round1_commitments = <<>>
    /\ message = "msg"
    /\ result = NoResult
    /\ dkg_result = NoArtifacts
    /\ runs = 0
    /\ sent = {}
    /\ served = {}
    /\ faults = 0
    /\ other = NoOther
    /\ probe = NoProbe

\* the signer nodes as the source has them: the policy hook approves everything
Init == N = NumNodes /\ Fresh /\ policy = "default"

\* the signer nodes with the policy hook replaced by one that can reject
InitCustomPolicy == N = NumNodes /\ Fresh /\ policy = "custom"

Next ==
    \/ StartDkg
    \/ DkgStatusDone
    \/ DkgRound1Done
    \/ DkgRound2Done
    \/ DkgRound3Done
    \/ \E msg \in Messages : StartSign(msg)
    \/ SignRound1Done
    \/ SignRound2Done
    \/ GatherFailed
    \/ \E i \in Nodes : NodeStatus(i)
    \/ \E i \in Nodes : NodeDkgRound1(i)
    \/ \E i \in Nodes : NodeDkgRound2(i)
    \/ \E i \in Nodes : NodeDkgRound3(i)
    \/ \E i \in Nodes : NodeSignRound1(i)
    \/ \E i \in Nodes : NodeSignRound2(i)
    \/ \E i \in Nodes : ConnectError(i)

Spec == Init /\ [][Next]_vars

SpecCustomPolicy == InitCustomPolicy /\ [][Next]_vars

\* groups of every size up to NumNodes
InitAnyGroup == N \in 1..NumNodes /\ Fresh /\ policy = "default"

SpecAnyGroup == InitAnyGroup /\ [][Next]_vars

\* the nodes of a fresh group, driven by a client's direct requests
NextDirect ==
    \/ \E i \in Nodes : DirectStatus(i)
    \/ \E i \in Nodes : DirectDkgRound1(i)
    \/ \E i \in Nodes : DirectDkgRound2(i)
    \/ \E i \in Nodes : DirectDkgRound3(i)
    \/ \E i \in Nodes : DirectSignRound1(i)
    \/ \E i \in Nodes : DirectSignRound2(i)

SpecDirect == Init /\ [][NextDirect]_vars

\* node processes started anew: PID_HEX is not assigned in any of them,
\* while the engines' stores hold the keys of an earlier DKG;
\* the policy hook may approve or reject (the source's hook always approves)
InitRestarted ==
    /\ N = NumNodes
    /\ PID_HEX = [i \in Nodes |-> Unset]
    /\ keys = [i \in Nodes |-> KeysOf(Sound(1))]
    /\ stage = [i \in Nodes |-> "none"]
    /\ nonce = [i \in Nodes |-> NoNonce]
    /\ nonceCtr = [i \in Nodes |-> 0]
    /\ policy = "custom"
    /\ pc = "idle"
    /\ req = [i \in Nodes |-> NoReq]
    /\ resp = [i \in Nodes |-> NoResp]
    /\ round1_data = <<>>
    /\ round1_commitments = <<>>
    /\ message = "msg"
    /\ result = NoResult
    /\ dkg_result = NoArtifacts
    /\ runs = 1
    /\ sent = {}
    /\ served = {}
    /\ faults = 0
    /\ other = NoOther
    /\ probe = NoProbe

SpecRestarted == InitRestarted /\ [][NextDirect]_vars

\* a group that completed key generation earlier: every node holds the
\* same artifacts and has answered a status request; the coordinator
\* processes are new and are handed the group's public key package; the
\* key generation was run 1
InitKeyed ==
    /\ N = NumNodes
    /\ PID_HEX = [i \in Nodes |-> IdHex(PID(i))]
    /\ keys = [i \in Nodes |-> KeysOf(Sound(1))]
    /\ stage = [i \in Nodes |-> "none"]
    /\ nonce = [i \in Nodes |-> NoNonce]
    /\ nonceCtr = [i \in Nodes |-> 0]
    /\ policy = "default"
    /\ pc = "idle"
    /\ req = [i \in Nodes |-> NoReq]
    /\ resp = [i \in Nodes |-> NoResp]
    /\ round1_data = <<>>
    /\ round1_commitments = <<>>
    /\ message = "msg"
    /\ result = NoResult
    /\ dkg_result = <<KeysOf(Sound(1)).verify_key_hex, KeysOf(Sound(1)).pubkp>>
    /\ runs = 1
    /\ sent = {}
    /\ served = {}
    /\ faults = 0
    /\ other = NoOther
    /\ probe = NoProbe

\* two signing sessions at a time: the steps of the second one interleave
\* with those of the first
NextTwoSessions ==
    \/ \E msg \in Messages : StartSign(msg)
    \/ SignRound1Done
    \/ SignRound2Done
    \/ GatherFailed
    \/ \E i \in Nodes : NodeSignRound1(i)
    \/ \E i \in Nodes : NodeSignRound2(i)
    \/ \E i \in Nodes : ConnectError(i)
    \/ \E msg \in Messages : OtherStartSign(msg)
    \/ OtherSignRound1Done
    \/ OtherSignRound2Done
    \/ OtherGatherFailed
    \/ \E i \in Nodes : OtherNodeSignRound1(i)
    \/ \E i \in Nodes : OtherNodeSignRound2(i)
    \/ \E i \in Nodes : OtherConnectError(i)

SpecTwoSessions == InitKeyed /\ [][NextTwoSessions]_vars

\* ------------------------------------------------------------ properties
\* the identifier of the participant behind SIGNERS[i]
NodeId(i) == IdHex(PID(i))

SetOf(seq) == {seq[k] : k \in 1..Len(seq)}

\* the handler answered 200
Ok(r) == r.resp.kind = "http" /\ r.resp.status_code = 200

\* the requests of kind the nodes answered with 200 in the current run
Answered(kind) == {r \in served : r.kind = kind /\ Ok(r)}

SentIn(round) == {s \in sent : s.round = round}

\* every (sender, (target, payload)) of the nodes' dkgRound2 outputs
Round2Outputs ==
    UNION { { <<NodeId(r.node), r.resp.json.pkgs2_json[k]>> :
                k \in 1..Len(r.resp.json.pkgs2_json) } : r \in Answered("r2") }

\* every (identifier, package) the nodes returned in dkgRound1
Round1Outputs ==
    { <<r.resp.json.id_hex, r.resp.json.pkg_hex>> : r \in Answered("r1") }

\* C1: the round-2 payloads posted to X in dkgRound3 are exactly the
\* payloads targeted at X in the union of all nodes' dkgRound2 outputs,
\* each tagged by its sender, none of them from X itself.
C1_Round2Routing ==
    \A s \in SentIn("r3") :
        LET X == NodeId(s.node)
            got == s.body.r2_pkgs_hex
        IN  /\ SetOf(got) = { <<e[1], e[2][2]>> : e \in {o \in Round2Outputs : o[2][1] = X} }
            /\ Len(got) = Cardinality(SetOf(got))
            /\ \A k \in 1..Len(got) : got[k][1] # X

C1_Witness ==
    \E s \in SentIn("r3") : Len(s.body.r2_pkgs_hex) = N - 1

\* the round-1 package list of a dkgRound2 or dkgRound3 request
R1ListOf(s) == IF s.round = "r2" THEN s.body.pkgs_hex ELSE s.body.r1_pkgs_hex

AllStatusExist ==
    /\ result.op = "run_dkg"
    /\ \A i \in Nodes : \E r \in Answered("status") :
           r.node = i /\ r.delivered /\ r.resp.json.is_exist

ArtifactsOf(r) == <<r.resp.json.verify_key_hex, r.resp.json.pubkp_hex>>

\* C3: if every node's status reports that keys exist, run_dkg returns the
\* existing artifacts and sends no dkgRound1/2/3 request in that run.
C3_StatusShortCircuit ==
    (AllStatusExist /\ pc # "status") =>
        /\ pc = "idle"
        /\ result.status = "returned"
        /\ \E r \in Answered("status") : result.value = ArtifactsOf(r)
        /\ sent = SentIn("status")

C3_Witness ==
    AllStatusExist /\ pc = "idle" /\ result.status = "returned"

\* C4: in the status short-circuit, when every node reports keys but some
\* node's artifacts differ from the first node's, run_dkg ends with an
\* error and returns no node's artifacts.
C4_StatusMismatchIsFatal ==
    ( /\ AllStatusExist
      /\ pc # "status"
      /\ \E r, q \in Answered("status") :
             r.node = 1 /\ ArtifactsOf(q) # ArtifactsOf(r) ) =>
        (pc = "idle" /\ result.status = "raised")

\* the dkgRound3 answers the coordinator holds when run_dkg ends
Round3Results == {r \in Answered("r3") : r.delivered}

\* C5: after dkgRound3, a mismatch between two nodes' round-3 artifacts
\* makes run_dkg fail; artifacts are returned only if all N agree.
C5_Round3MismatchFails ==
    ( /\ result.op = "run_dkg"
      /\ pc = "idle"
      /\ \E r, q \in Round3Results : ArtifactsOf(r) # ArtifactsOf(q) ) =>
        result.status = "raised"

\* C6: whenever run_dkg returns artifacts after rounds 1-3, every node has
\* completed dkgRound3 successfully and holds keys.
C6_NoPartialSuccess ==
    ( /\ result.op = "run_dkg"
      /\ result.status = "returned"
      /\ SentIn("r3") # {} ) =>
        \A i \in Nodes :
            /\ \E r \in Answered("r3") : r.node = i
            /\ keys[i].is_exists

\* some node failed dkgRound2 in the current run_dkg
Round2Failed ==
    /\ result.op = "run_dkg"
    /\ \E r \in served : r.kind = "r2" /\ ~Ok(r)

\* C7: if a node fails dkgRound2, the run reports failure, no dkgRound3
\* request is sent, and no node's keys change through that run.
C7_AbortOnRound2Failure ==
    /\ [](Round2Failed =>
            /\ SentIn("r3") = {}
            /\ \A r \in served : r.kind # "r3"
            /\ pc # "r2" => (pc = "idle" /\ result.status = "raised"))
    /\ [][Round2Failed => keys' = keys]_vars

C7_Witness ==
    Round2Failed /\ pc = "idle" /\ result.status = "raised"

\* C8: no request of round K+1 is sent before the response or failure of
\* every node for round K is in the coordinator's hands.
C8_RoundBarrier ==
    \A s \in sent : s.round \notin {"status", "s1"} => s.after = Nodes

C8_Witness ==
    /\ SentIn("s2") # {}
    /\ \A s \in SentIn("s2") : s.after = Nodes

\* C9: every signRound2 request carries the same message and the same
\* commitment list: the (identifier, commitment) pairs of all nodes'
\* signRound1 of this session, the receiver's own included.
C9_FullCommitmentSet ==
    \A s \in SentIn("s2") :
        /\ s.body.message_hex = message
        /\ Len(s.body.commitments) = N
        /\ \A k \in Nodes : \E r \in Answered("s1") :
               /\ r.node = k
               /\ s.body.commitments[k] = <<r.resp.json.id, r.resp.json.commitment>>
        /\ \E k \in Nodes : s.body.commitments[k][1] = NodeId(s.node)
        /\ \A t \in SentIn("s2") : t.body = s.body

C9_Witness ==
    \E s \in SentIn("s2") : Len(s.body.commitments) = N

\* C10: a node whose policy check rejects the message answers with a
\* refusal that is not the 500 of a node failure, without invoking the
\* engine, and the session ends with that refusal.
C10_RefusalIsDistinct ==
    \A r \in served :
        r.refused =>
            /\ r.resp.status_code # 500
            /\ r.called = {}
            /\ (r.delivered /\ pc = "idle") => result.error = "Refused"

\* coordinate_frost_sign has ended after calling the aggregation operation
Aggregated ==
    /\ result.op = "coordinate_frost_sign"
    /\ pc = "idle"
    /\ (result.status = "returned" \/ result.error = "RuntimeError")

\* node i's request of kind reached no usable answer at the coordinator:
\* an error response, a refusal, or no response at all
FailedIn(kind) ==
    {r \in served : r.kind = kind /\ (~Ok(r) \/ ~r.delivered)}

\* C11: aggregation is called only after every node returned a commitment
\* and a signature share; a failure or refusal of any node in either round
\* aborts the session, and after a failure in signRound1 no signRound2
\* request is sent.
C11_AggregateAfterAllShares ==
    /\ Aggregated =>
          \A i \in Nodes :
              /\ \E r \in Answered("s1") : r.node = i /\ r.delivered
              /\ \E r \in Answered("s2") : r.node = i /\ r.delivered
    /\ (result.op = "coordinate_frost_sign" /\ FailedIn("s1") # {}) =>
          /\ SentIn("s2") = {}
          /\ pc # "s1" => (pc = "idle" /\ result.status = "raised" /\ ~Aggregated)
    /\ (result.op = "coordinate_frost_sign" /\ FailedIn("s2") # {} /\ pc # "s2") =>
          (pc = "idle" /\ result.status = "raised" /\ ~Aggregated)

C11_Witness ==
    /\ Aggregated
    /\ result.status = "returned"
    /\ \A i \in Nodes : \E r \in Answered("s2") : r.node = i

\* the (identifier, commitment) pairs a session was answered in signRound1
CommitmentsOf(srv) ==
    { <<r.resp.json.id, r.resp.json.commitment>> : r \in {q \in srv : q.kind = "s1" /\ Ok(q)} }

\* the signature shares a session was answered in signRound2
SharesOf(srv) ==
    { r.resp.json.sig_share : r \in {q \in srv : q.kind = "s2" /\ Ok(q)} }

\* what the aggregation step of a session is handed belongs to the session
\* whose answers are mine and not to the session whose answers are theirs
Isolated(msg, commitments, shares, mine, theirs) ==
    /\ \A k \in 1..Len(commitments) :
           /\ commitments[k] \in CommitmentsOf(mine)
           /\ commitments[k] \notin CommitmentsOf(theirs)
    /\ \A k \in 1..Len(shares) :
           /\ shares[k][2] \in SharesOf(mine)
           /\ shares[k][2] \notin SharesOf(theirs)
           /\ \E c \in 1..Len(commitments) :
                 /\ commitments[c][1] = shares[k][1]
                 /\ shares[k][2] = <<"share", shares[k][1], msg, commitments[c][2]>>

\* the first session is about to call the aggregation operation
AboutToAggregate ==
    pc = "s2" /\ GatherDone(resp) /\ ~SigShares(JsonAll(resp)).raised

OtherAboutToAggregate ==
    other.pc = "s2" /\ GatherDone(other.resp) /\ ~SigShares(JsonAll(other.resp)).raised

GroupArtifacts(run) == <<KeysOf(Sound(run)).verify_key_hex, KeysOf(Sound(run)).pubkp>>

\* C13: run_dkg run twice on a fresh group of any size, nothing failing:
\* both runs return; the first goes through rounds 1-3, the second returns
\* the artifacts of the first after the status round alone.
C13_DkgTwice ==
    (result.op = "run_dkg" /\ pc = "idle" /\ faults = 0 /\ runs \in {1, 2}) =>
        /\ result.status = "returned"
        /\ result.value = GroupArtifacts(1)
        /\ runs = 1 => SentIn("r3") # {}
        /\ runs = 2 => sent = SentIn("status")

C13_Witness ==
    /\ runs = 2
    /\ result.op = "run_dkg"
    /\ pc = "idle"
    /\ faults = 0
    /\ result.status = "returned"

\* what node i answers to a status request in the current state
StatusReport(i) == dkg_status(NodeState(i), PID(i), FALSE).resp.json

\* the step ends a DKG round request to node i
DkgRoundStep(i) == req[i].kind \in {"r1", "r2", "r3"} /\ req'[i] = NoReq

\* C14: no step other than a DKG round on the node, a status call in
\* particular, changes the key existence, artifacts and identifier the
\* node reports in status.
C14_StatusIdempotent ==
    [][\A i \in Nodes : ~DkgRoundStep(i) => StatusReport(i)' = StatusReport(i)]_vars

C14_Witness ==
    \E r \in Answered("status") : r.resp.json.is_exist

\* C15: once a node has reported in status that keys exist with some
\* artifacts, what it reports stays that: here, from the status answer of
\* the current run to every later state of the run.
C15_ArtifactsImmutable ==
    \A r \in Answered("status") :
        r.resp.json.is_exist =>
            /\ StatusReport(r.node).is_exist
            /\ StatusReport(r.node).verify_key_hex = r.resp.json.verify_key_hex
            /\ StatusReport(r.node).pubkp_hex = r.resp.json.pubkp_hex

\* the body node k answered to its request of kind in the current run
AnswerOf(kind, k) == (CHOOSE r \in Answered(kind) : r.node = k).resp.json

\* the round-1 pairs and the sender-tagged round-2 entries the nodes
\* answered, listed by node, whatever the order the answers came in
R1Answers == [k \in Nodes |-> <<AnswerOf("r1", k).id_hex, AnswerOf("r1", k).pkg_hex>>]

RECURSIVE R2Answers(_)
R2Answers(k) ==
    IF k > N THEN <<>>
    ELSE LET a == AnswerOf("r2", k) IN
         [j \in 1..Len(a.pkgs2_json) |-> <<a.id_hex, a.pkgs2_json[j]>>] \o R2Answers(k + 1)

\* the round-2 list for identifier id: payloads targeted at id, by sender
R2ListFor(id) ==
    LET mine == SelectSeq(R2Answers(1), LAMBDA e : e[2][1] = id) IN
    [j \in 1..Len(mine) |-> <<mine[j][1], mine[j][2][2]>>]

\* C16: the round-2 and round-3 bodies are a function of what the nodes
\* answered, not of the order the answers arrived in: the node that
\* reported identifier id in round 1 is posted the lists built for id.
C16_RoutingByIdentifier ==
    /\ \A s \in SentIn("r2") \cup SentIn("r3") :
           R1ListOf(s) = SelectSeq(R1Answers,
                             LAMBDA p : p[1] # AnswerOf("r1", s.node).id_hex)
    /\ \A s \in SentIn("r3") :
           s.body.r2_pkgs_hex = R2ListFor(AnswerOf("r1", s.node).id_hex)

C16_Witness ==
    /\ pc = "r3"
    /\ \A i \in Nodes : \E s \in SentIn("r3") : s.node = i

\* some node's dkgRound2 output of the current run has no entry targeted
\* at some other participant
RoutingViolation ==
    /\ result.op = "run_dkg"
    /\ \E r \in Answered("r2") : \E X \in Nodes \ {r.node} :
           \A k \in 1..Len(r.resp.json.pkgs2_json) :
               r.resp.json.pkgs2_json[k][1] # NodeId(X)

\* C17: when a participant is missing a round-2 payload from some sender,
\* run_dkg fails at that round: no dkgRound3 request is sent, no node
\* finalises, the run ends raised.
C17_RoutingViolationAborts ==
    RoutingViolation =>
        /\ SentIn("r3") = {}
        /\ \A r \in served : r.kind # "r3"
        /\ pc # "r2" => (pc = "idle" /\ result.status = "raised")
\* ------------------------------------------------------------ C18
\* C18: a node answers dkgRound2 with an empty package list, and dkgRound3
\* with an empty round-1 list or an empty round-2 list, with the validation
\* status 400, without invoking the engine and without changing its state.
EmptyInput ==
    \/ probe.kind = "r2" /\ probe.body.pkgs_hex = <<>>
    \/ probe.kind = "r3" /\ (probe.body.r1_pkgs_hex = <<>> \/ probe.body.r2_pkgs_hex = <<>>)

C18_EmptyListsRejected ==
    EmptyInput =>
        /\ probe.out.resp.status_code = 400
        /\ probe.out.called = {}
        /\ probe.out.st = probe.before

\* a node that completed round 2 is sent a round-3 request whose round-2
\* list is empty
C18_Witness ==
    /\ probe.kind = "r3"
    /\ probe.body.r1_pkgs_hex # <<>>
    /\ probe.body.r2_pkgs_hex = <<>>
    /\ probe.before.stage = "r2"
    /\ probe.before.PID_HEX # Unset
    /\ probe.out.resp.status_code = 400

\* ------------------------------------------------------------ C19
\* the round-1 list posted to the node holds an entry tagged with the
\* node's own identifier, and the node is ready for round 2
OwnEntry ==
    /\ probe.kind = "r2"
    /\ \E k \in 1..Len(probe.body.pkgs_hex) :
            probe.body.pkgs_hex[k][1] = IdHex(PID(probe.node))
    /\ probe.before.PID_HEX # Unset
    /\ probe.before.stage = "r1"

\* C19: dkgRound2 given a package set that contains an entry tagged with the
\* node's own identifier fails validation (status 400) and returns no
\* round-2 outputs.
C19_OwnPackageRejected ==
    OwnEntry =>
        /\ probe.out.resp.status_code = 400
        /\ ~Has(probe.out.resp.json, "pkgs2_json")

\* ------------------------------------------------------------ C20
\* the position of a round in its run: status, rounds 1-3 of run_dkg;
\* rounds 1-2 of coordinate_frost_sign
RoundNo(kind) ==
    CASE kind = "status" -> 0
      [] kind = "r1" -> 1
      [] kind = "r2" -> 2
      [] kind = "r3" -> 3
      [] kind = "s1" -> 1
      [] kind = "s2" -> 2

\* a node's request of the current run failed: the node answered with an
\* error status, or the request ended in a transport error
Failed(r) == ~Ok(r) \/ ~r.delivered

\* C20: within one run each node is sent at most one request per round, and
\* no request of a later round is sent once a request of the run has failed.
C20_NoRetry ==
    /\ \A s, t \in sent : (s.round = t.round /\ s.node = t.node) => s = t
    /\ \A s \in sent : \A r \in served :
            RoundNo(r.kind) < RoundNo(s.round) => ~Failed(r)

\* ------------------------------------------------------------ C21
\* a request of one of the rounds that read PID_HEX reaches a node process
\* that has not assigned it
Unidentified ==
    /\ probe.kind \in {"r2", "r3", "s1", "s2"}
    /\ probe.before.PID_HEX = Unset

\* the identifier a response carries: "id_hex" in the DKG responses, "id" in
\* the signing responses
ResponseId(kind, json) == IF kind \in {"s1", "s2"} THEN json.id ELSE json.id_hex

====
